---------------------------- MODULE Spec2Model ----------------------------
(***************************************************************************)
(* State-machine model of the MOSDAC assistant front end: the App tab      *)
(* switcher, the ChatInterface component with its rule-based               *)
(* simulateAIResponse classifier, and the KnowledgeGraph component with    *)
(* its node catalog, search filter and node selection.                     *)
(*                                                                         *)
(* JavaScript strings are sequences of one-character strings, so that      *)
(* toLowerCase, includes and trim are computed rather than assumed.        *)
(* Optional values (Node | null) are sequences of length 0 or 1.           *)
(***************************************************************************)
EXTENDS Integers, Sequences, FiniteSets, TLC

VARIABLES
    activeTab,      \* App: useState('chat')
    messages,       \* ChatInterface: useState<Message[]>
    inputValue,     \* ChatInterface: useState('')
    isTyping,       \* ChatInterface: useState(false)
    timers,         \* pending setTimeout callbacks of the mounted ChatInterface, oldest first
    orphans,        \* pending setTimeout callbacks of ChatInterface instances since unmounted
    now,            \* the millisecond clock read by Date.now()
    selectedNode,   \* KnowledgeGraph: useState<Node | null>(null)
    searchTerm,     \* KnowledgeGraph: useState('')
    filteredNodes,  \* KnowledgeGraph: useState<Node[]>([])
    effectPending,  \* KnowledgeGraph: the filter effect is scheduled, not yet run
    nodes,          \* KnowledgeGraph: the node catalog literal
    edges,          \* KnowledgeGraph: the edge catalog literal
    lastOp          \* history: the node click or submission made by the last step, if any

vars == <<activeTab, messages, inputValue, isTyping, timers, orphans, now, selectedNode,
          searchTerm, filteredNodes, effectPending, nodes, edges, lastOp>>

chatVars == <<messages, inputValue, isTyping>>
graphVars == <<selectedNode, searchTerm, filteredNodes, effectPending>>
catalogVars == <<nodes, edges>>

-----------------------------------------------------------------------------
(* Bounds of the model.                                                    *)

\* user messages accepted per mounted chat session
MaxUserMsgs == 2

\* setTimeout callbacks outstanding at once (live and orphaned)
MaxTimers == 2

\* the clock runs for at most this many timer delays
MaxPeriods == 2

\* words concatenated into a generated query text
MaxWords == 2

\* the clock reading when the page is loaded (any value far above 1)
StartTime == 100000

\* setTimeout(..., 1500)
TimerDelay == 1500

-----------------------------------------------------------------------------
(* Strings.                                                                *)

UpperChars == <<"A","B","C","D","E","F","G","H","I","J","K","L","M","N","O","P","Q","R","S","T","U","V","W","X","Y","Z">>
LowerChars == <<"a","b","c","d","e","f","g","h","i","j","k","l","m","n","o","p","q","r","s","t","u","v","w","x","y","z">>

\* String.prototype.toLowerCase on one character
LowerChar(c) ==
    IF \E i \in 1..Len(UpperChars) : UpperChars[i] = c
    THEN LowerChars[CHOOSE i \in 1..Len(UpperChars) : UpperChars[i] = c]
    ELSE c

\* String.prototype.toLowerCase
toLowerCase(s) == [i \in 1..Len(s) |-> LowerChar(s[i])]

\* String.prototype.includes: k occurs in s as a contiguous substring
includes(s, k) ==
    \E i \in 0..(Len(s) - Len(k)) : SubSeq(s, i + 1, i + Len(k)) = k

\* white space as String.prototype.trim sees it
IsSpace(c) == c \in {" ", "\t", "\n"}

RECURSIVE TrimStart(_)
TrimStart(s) ==
    IF s # <<>> /\ IsSpace(Head(s)) THEN TrimStart(Tail(s)) ELSE s

RECURSIVE TrimEnd(_)
TrimEnd(s) ==
    IF s # <<>> /\ IsSpace(s[Len(s)]) THEN TrimEnd(SubSeq(s, 1, Len(s) - 1)) ELSE s

\* String.prototype.trim
trim(s) == TrimEnd(TrimStart(s))

\* JavaScript truthiness of a string: the empty string is falsy
Truthy(s) == s # <<>>

-----------------------------------------------------------------------------
(* KnowledgeGraph: the catalog literals.                                   *)

\* const nodes: Node[] = [...]  (the superscript in '70.6M km2' is written as 2)
SampleNodes == <<
    [id |-> "insat3d", label |-> <<"I","N","S","A","T","-","3","D">>, type |-> <<"m","i","s","s","i","o","n">>, x |-> 200, y |-> 150,
     connections |-> <<"imager_data", "sounder_data", "meteorology">>,
     metadata |-> [launch |-> "2013", status |-> "Active", orbit |-> "Geostationary"]],
    [id |-> "scatsat1", label |-> <<"S","C","A","T","S","A","T","-","1">>, type |-> <<"m","i","s","s","i","o","n">>, x |-> 400, y |-> 100,
     connections |-> <<"scatterometer_data", "ocean_winds", "weather">>,
     metadata |-> [launch |-> "2016", status |-> "Active", orbit |-> "Polar"]],
    [id |-> "oceansat2", label |-> <<"O","c","e","a","n","s","a","t","-","2">>, type |-> <<"m","i","s","s","i","o","n">>, x |-> 600, y |-> 180,
     connections |-> <<"ocm_data", "ocean_color", "coastal_monitoring">>,
     metadata |-> [launch |-> "2009", status |-> "Active", orbit |-> "Sun-synchronous"]],
    [id |-> "imager_data", label |-> <<"I","m","a","g","e","r"," ","D","a","t","a">>, type |-> <<"p","r","o","d","u","c","t">>, x |-> 150, y |-> 300,
     connections |-> <<"meteorology", "weather_forecasting">>,
     metadata |-> [resolution |-> "1km-4km", bands |-> "6 channels", format |-> "HDF5"]],
    [id |-> "scatterometer_data", label |-> <<"S","c","a","t","t","e","r","o","m","e","t","e","r"," ","D","a","t","a">>, type |-> <<"p","r","o","d","u","c","t">>,
     x |-> 400, y |-> 280,
     connections |-> <<"ocean_winds", "weather">>,
     metadata |-> [resolution |-> "25km", swath |-> "1400km", format |-> "NetCDF"]],
    [id |-> "ocm_data", label |-> <<"O","C","M"," ","D","a","t","a">>, type |-> <<"p","r","o","d","u","c","t">>, x |-> 650, y |-> 320,
     connections |-> <<"ocean_color", "coastal_monitoring">>,
     metadata |-> [resolution |-> "360m", bands |-> "8 channels", format |-> "HDF4"]],
    [id |-> "user_manual", label |-> <<"U","s","e","r"," ","M","a","n","u","a","l">>, type |-> <<"d","o","c","u","m","e","n","t">>, x |-> 100, y |-> 450,
     connections |-> <<"imager_data", "data_processing">>,
     metadata |-> [pages |-> 156, version |-> "2.1", format |-> "PDF"]],
    [id |-> "api_doc", label |-> <<"A","P","I"," ","D","o","c","u","m","e","n","t","a","t","i","o","n">>, type |-> <<"d","o","c","u","m","e","n","t">>, x |-> 300, y |-> 480,
     connections |-> <<"data_access", "developers">>,
     metadata |-> [endpoints |-> 12, version |-> "1.3", format |-> "HTML"]],
    [id |-> "faq", label |-> <<"F","A","Q"," ","D","a","t","a","b","a","s","e">>, type |-> <<"d","o","c","u","m","e","n","t">>, x |-> 500, y |-> 450,
     connections |-> <<"user_support", "common_issues">>,
     metadata |-> [questions |-> 247, categories |-> 8, updated |-> "2024-01-15"]],
    [id |-> "indian_ocean", label |-> <<"I","n","d","i","a","n"," ","O","c","e","a","n">>, type |-> <<"l","o","c","a","t","i","o","n">>, x |-> 750, y |-> 400,
     connections |-> <<"oceansat2", "scatsat1">>,
     metadata |-> [area |-> "70.6M km2", coverage |-> "Full",
                   sensors |-> <<"OCM", "Scatterometer">>]]
>>

\* the edges literal with a first edge whose target is the id of no node
SampleEdges_Dangling == <<
    [from |-> "insat3d", to |-> "sounder_data", label |-> "generates", type |-> "provides"],
    [from |-> "scatsat1", to |-> "scatterometer_data", label |-> "produces", type |-> "provides"]
>>

\* const edges: Edge[] = [...]
SampleEdges == <<
    [from |-> "insat3d", to |-> "imager_data", label |-> "generates", type |-> "provides"],
    [from |-> "scatsat1", to |-> "scatterometer_data", label |-> "produces", type |-> "provides"],
    [from |-> "oceansat2", to |-> "ocm_data", label |-> "captures", type |-> "provides"],
    [from |-> "imager_data", to |-> "user_manual", label |-> "documented in", type |-> "contains"],
    [from |-> "scatterometer_data", to |-> "api_doc", label |-> "accessible via", type |-> "accesses"],
    [from |-> "ocm_data", to |-> "indian_ocean", label |-> "covers", type |-> "related"],
    [from |-> "scatsat1", to |-> "indian_ocean", label |-> "monitors", type |-> "related"]
>>

\* nodes.find(n => n.id === id): the first node with that id, or undefined
find(ns, id) ==
    IF \E i \in 1..Len(ns) : ns[i].id = id
    THEN <<ns[CHOOSE i \in 1..Len(ns) : ns[i].id = id /\ \A j \in 1..(i - 1) : ns[j].id # id]>>
    ELSE <<>>

\* the filter predicate with the type test left out
NodeMatches_LabelOnly(node, term) ==
    includes(toLowerCase(node.label), toLowerCase(term))

\* the filter predicate with the term taken as typed, not lower-cased
NodeMatches_CaseSensitive(node, term) ==
    \/ includes(toLowerCase(node.label), term)
    \/ includes(toLowerCase(node.type), term)

\* the predicate of the filter effect: label or type contains the term, ignoring case
NodeMatches(node, term) ==
    \/ includes(toLowerCase(node.label), toLowerCase(term))
    \/ includes(toLowerCase(node.type), toLowerCase(term))

\* nodes.filter(node => ...) of the filter effect
FilterNodes(ns, term) ==
    LET Keep(n) == NodeMatches(n, term) IN SelectSeq(ns, Keep)

\* the rendered list without the ternary: always the filter result
DisplayedNodes_FilteredOnly == filteredNodes

\* (searchTerm ? filteredNodes : nodes): the node list the view renders
DisplayedNodes == IF Truthy(searchTerm) THEN filteredNodes ELSE nodes

\* the edge filter of the Relationships panel keeping outgoing edges only
Relationships_OutgoingOnly(es, id) ==
    LET Keep(e) == e.from = id IN SelectSeq(es, Keep)

\* edges.filter(edge => edge.from === selectedNode.id || edge.to === selectedNode.id)
Relationships(es, id) ==
    LET Keep(e) == e.from = id \/ e.to = id IN SelectSeq(es, Keep)

\* renderEdges: one entry per edge, null (<<>>) where an endpoint is not found
renderEdges(ns, es) ==
    [i \in 1..Len(es) |->
        LET fromNode == find(ns, es[i].from)
            toNode == find(ns, es[i].to)
        IN  IF fromNode = <<>> \/ toNode = <<>> THEN <<>>
            ELSE <<[key |-> i - 1,
                    x1 |-> fromNode[1].x + 40, y1 |-> fromNode[1].y + 40,
                    x2 |-> toNode[1].x + 40, y2 |-> toNode[1].y + 40,
                    dashed |-> (es[i].type = "related")]>>]

\* the Connections panel: each connection id with the label shown for it
ConnectionsPanel(ns, node) ==
    [i \in 1..Len(node.connections) |->
        LET connectedNode == find(ns, node.connections[i])
        IN  [id |-> node.connections[i],
             resolved |-> connectedNode # <<>>,
             shown |-> IF connectedNode # <<>> THEN connectedNode[1].label
                       ELSE <<node.connections[i]>>]]

\* the Relationships panel: rendered only while a node is selected
RelationshipsPanel ==
    IF selectedNode = <<>> THEN <<>> ELSE Relationships(edges, selectedNode[1].id)
-----------------------------------------------------------------------------
(* ChatInterface: messages and the rule-based response.                    *)

\* the id '1' of the greeting in the initial messages state
GreetingId == 1

\* confidence: 0.92, in hundredths
ProductConfidence == 92

\* steps: 5
DownloadSteps == 5

KwSatellite == <<"s","a","t","e","l","l","i","t","e">>
KwData == <<"d","a","t","a">>
KwDownload == <<"d","o","w","n","l","o","a","d">>
KwAccess == <<"a","c","c","e","s","s">>
KwLocation == <<"l","o","c","a","t","i","o","n">>
KwArea == <<"a","r","e","a">>
KwRegion == <<"r","e","g","i","o","n">>

\* the fixed response bodies, one token per template literal
ProductContent == <<"Based on our knowledge graph analysis, ...">>
DownloadContent == <<"To download data from MOSDAC, ...">>
GeospatialContent == <<"I can help you find satellite data for specific geographical locations. ...">>
GreetingContent == <<"Hello! I'm your MOSDAC AI Assistant. ...">>

\* `I understand you're looking for information about "${userQuery}". ...`
GeneralContent(userQuery) ==
    <<"I understand you're looking for information about \"">> \o userQuery
        \o <<"\". Let me search through our comprehensive knowledge base ...">>

\* the initial element of the messages state, created at clock reading t
Greeting(t) ==
    [id |-> GreetingId, content |-> GreetingContent, sender |-> "bot", timestamp |-> t]

\* ProductResponse with the confidence written as a percentage
ProductResponse_Percent(userQuery, t) ==
    [id |-> t, content |-> ProductContent, sender |-> "bot", timestamp |-> t,
     type |-> "query_analysis",
     metadata |-> [entities |-> <<<<"I","N","S","A","T","-","3","D">>, <<"S","C","A","T","S","A","T","-","1">>, <<"O","c","e","a","n","s","a","t","-","2">>>>,
                   intent |-> "product_inquiry",
                   confidence |-> ProductConfidence * 100]]

ProductResponse(userQuery, t) ==
    [id |-> t, content |-> ProductContent, sender |-> "bot", timestamp |-> t,
     type |-> "query_analysis",
     metadata |-> [entities |-> <<<<"I","N","S","A","T","-","3","D">>, <<"S","C","A","T","S","A","T","-","1">>, <<"O","c","e","a","n","s","a","t","-","2">>>>,
                   intent |-> "product_inquiry",
                   confidence |-> ProductConfidence]]

DownloadResponse(userQuery, t) ==
    [id |-> t, content |-> DownloadContent, sender |-> "bot", timestamp |-> t,
     type |-> "document",
     metadata |-> [procedure |-> "data_download", steps |-> DownloadSteps]]

GeospatialResponse(userQuery, t) ==
    [id |-> t, content |-> GeospatialContent, sender |-> "bot", timestamp |-> t,
     type |-> "geospatial",
     metadata |-> [spatialQuery |-> TRUE,
                   availableSensors |-> <<"OCM", "Scatterometer", "Imager">>]]

GeneralResponse(userQuery, t) ==
    [id |-> t, content |-> GeneralContent(userQuery), sender |-> "bot", timestamp |-> t,
     metadata |-> [generalQuery |-> TRUE,
                   searchAreas |-> <<"documentation", "faq", "missions", "support">>]]

\* simulateAIResponse with its else branch answering as the first branch does
simulateAIResponse_NoFallback(userQuery, t) ==
    LET query == toLowerCase(userQuery) IN
    IF includes(query, KwSatellite) \/ includes(query, KwData)
    THEN ProductResponse(userQuery, t)
    ELSE IF includes(query, KwDownload) \/ includes(query, KwAccess)
    THEN DownloadResponse(userQuery, t)
    ELSE IF includes(query, KwLocation) \/ includes(query, KwArea) \/ includes(query, KwRegion)
    THEN GeospatialResponse(userQuery, t)
    ELSE ProductResponse(userQuery, t)

\* simulateAIResponse answering by the clock: past the first timer delay every
\* query gets the general response
simulateAIResponse_ByClock(userQuery, t) ==
    LET query == toLowerCase(userQuery) IN
    IF t > StartTime + TimerDelay
    THEN GeneralResponse(userQuery, t)
    ELSE IF includes(query, KwSatellite) \/ includes(query, KwData)
    THEN ProductResponse(userQuery, t)
    ELSE IF includes(query, KwDownload) \/ includes(query, KwAccess)
    THEN DownloadResponse(userQuery, t)
    ELSE IF includes(query, KwLocation) \/ includes(query, KwArea) \/ includes(query, KwRegion)
    THEN GeospatialResponse(userQuery, t)
    ELSE GeneralResponse(userQuery, t)

\* simulateAIResponse with a product rule that needs both of its keywords
simulateAIResponse_BothKeywords(userQuery, t) ==
    LET query == toLowerCase(userQuery) IN
    IF includes(query, KwSatellite) /\ includes(query, KwData)
    THEN ProductResponse(userQuery, t)
    ELSE IF includes(query, KwDownload) \/ includes(query, KwAccess)
    THEN DownloadResponse(userQuery, t)
    ELSE IF includes(query, KwLocation) \/ includes(query, KwArea) \/ includes(query, KwRegion)
    THEN GeospatialResponse(userQuery, t)
    ELSE GeneralResponse(userQuery, t)

\* simulateAIResponse with a geospatial rule that lacks the keyword region
simulateAIResponse_NoRegion(userQuery, t) ==
    LET query == toLowerCase(userQuery) IN
    IF includes(query, KwSatellite) \/ includes(query, KwData)
    THEN ProductResponse(userQuery, t)
    ELSE IF includes(query, KwDownload) \/ includes(query, KwAccess)
    THEN DownloadResponse(userQuery, t)
    ELSE IF includes(query, KwLocation) \/ includes(query, KwArea)
    THEN GeospatialResponse(userQuery, t)
    ELSE GeneralResponse(userQuery, t)

\* simulateAIResponse(userQuery), evaluated when Date.now() reads t
simulateAIResponse(userQuery, t) ==
    LET query == toLowerCase(userQuery) IN
    IF includes(query, KwSatellite) \/ includes(query, KwData)
    THEN ProductResponse(userQuery, t)
    ELSE IF includes(query, KwDownload) \/ includes(query, KwAccess)
    THEN DownloadResponse(userQuery, t)
    ELSE IF includes(query, KwLocation) \/ includes(query, KwArea) \/ includes(query, KwRegion)
    THEN GeospatialResponse(userQuery, t)
    ELSE GeneralResponse(userQuery, t)

\* the userMessage object built by handleSendMessage
UserMessage(text, t) ==
    [id |-> t, content |-> text, sender |-> "user", timestamp |-> t]

\* the callback handed to setTimeout: it closes over inputValue as submitted
TimerOf(text, t) == [query |-> text, due |-> t + TimerDelay]

UserCount == Cardinality({i \in 1..Len(messages) : messages[i].sender = "user"})

\* room left within the bounds for one more accepted message
WithinBounds == UserCount < MaxUserMsgs /\ Len(timers) + orphans < MaxTimers

\* handleSendMessage guarding on the raw input instead of the trimmed input
handleSendMessage_NoTrim ==
    IF ~Truthy(inputValue)
    THEN UNCHANGED <<messages, inputValue, isTyping, timers>>
    ELSE /\ messages' = Append(messages, UserMessage(inputValue, now))
         /\ inputValue' = <<>>
         /\ isTyping' = TRUE
         /\ timers' = Append(timers, TimerOf(inputValue, now))

\* handleSendMessage answering at once instead of from the timer callback
handleSendMessage_Sync ==
    IF ~Truthy(trim(inputValue))
    THEN UNCHANGED <<messages, inputValue, isTyping, timers>>
    ELSE /\ messages' = Append(Append(messages, UserMessage(inputValue, now)),
                               simulateAIResponse(inputValue, now))
         /\ inputValue' = <<>>
         /\ isTyping' = FALSE
         /\ timers' = timers

\* handleSendMessage putting the user message at the head of the list
handleSendMessage_Prepend ==
    IF ~Truthy(trim(inputValue))
    THEN UNCHANGED <<messages, inputValue, isTyping, timers>>
    ELSE /\ messages' = <<UserMessage(inputValue, now)>> \o messages
         /\ inputValue' = <<>>
         /\ isTyping' = TRUE
         /\ timers' = Append(timers, TimerOf(inputValue, now))

\* handleSendMessage
handleSendMessage ==
    IF ~Truthy(trim(inputValue))
    THEN UNCHANGED <<messages, inputValue, isTyping, timers>>
    ELSE /\ messages' = Append(messages, UserMessage(inputValue, now))
         /\ inputValue' = <<>>
         /\ isTyping' = TRUE
         /\ timers' = Append(timers, TimerOf(inputValue, now))

\* handleKeyPress: Enter without Shift submits, any other key does nothing here
handleKeyPress(key, shiftKey) ==
    IF key = "Enter" /\ ~shiftKey
    THEN handleSendMessage
    ELSE UNCHANGED <<messages, inputValue, isTyping, timers>>

\* the timer callback clearing the indicator without appending its response
TimerCallback_Drop ==
    /\ timers' = Tail(timers)
    /\ isTyping' = FALSE
    /\ UNCHANGED <<messages, inputValue>>

\* the timer callback answering the text in the input field when it runs
TimerCallback_CurrentInput ==
    /\ timers' = Tail(timers)
    /\ messages' = Append(messages, simulateAIResponse(inputValue, now))
    /\ isTyping' = FALSE
    /\ UNCHANGED inputValue

\* the callback handed to setTimeout, run for the oldest timer of the mounted view
TimerCallback ==
    LET timer == Head(timers)
        botResponse == simulateAIResponse(timer.query, now)
    IN  /\ timers' = Tail(timers)
        /\ messages' = Append(messages, botResponse)
        /\ isTyping' = FALSE
        /\ UNCHANGED inputValue

-----------------------------------------------------------------------------
(* Inputs.                                                                 *)

\* the tabs of App
Tabs == {"chat", "knowledge", "dashboard", "content"}

\* classify("How do I download INSAT-3D imager data?")
ExampleDownload == <<"H","o","w"," ","d","o"," ","I"," ","d","o","w","n","l","o","a","d"," ","I","N","S","A","T","-","3","D"," ","i","m","a","g","e","r"," ","d","a","t","a","?">>

\* classify("tell me about the weather")
ExampleWeather == <<"t","e","l","l"," ","m","e"," ","a","b","o","u","t"," ","t","h","e"," ","w","e","a","t","h","e","r">>

\* the words generated query texts are built from
Words == {<<"d","o","w","n","l","o","a","d">>, <<"a","c","c","e","s","s">>, <<"s","a","t","e","l","l","i","t","e">>, <<"d","a","t","a">>, <<"l","o","c","a","t","i","o","n">>, <<"a","r","e","a">>, <<"r","e","g","i","o","n">>,
          <<"w","e","a","t","h","e","r">>, <<"D","A","T","A">>, <<"I","N","S","A","T","-","3","D">>, <<" ">>, <<"a","r","e">>, <<"a">>}

RECURSIVE WordTexts(_)
WordTexts(n) ==
    IF n = 0 THEN {<<>>}
    ELSE WordTexts(n - 1) \cup {w \o t : w \in Words, t \in WordTexts(n - 1)}

\* every text the input field is given when classify is checked as a function
Texts == WordTexts(MaxWords) \cup {ExampleDownload, ExampleWeather}

\* the texts typed into the chat input in the full model
Queries == {<<>>, <<" "," ">>, ExampleDownload, ExampleWeather}

\* the terms typed into the graph search input
SearchTerms == {<<>>, <<" ">>, <<"o","c","e","a","n">>, <<"O","C","E","A","N">>, <<"s","a","t">>, <<"S","A","T">>, <<"m","i","s","s","i","o","n">>, <<"z","z","z">>}

\* the key events handleKeyPress is given: <<e.key, e.shiftKey>>
KeyEvents == {<<"Enter", FALSE>>, <<"Enter", TRUE>>, <<"a", FALSE>>}

-----------------------------------------------------------------------------
(* KnowledgeGraph handlers.                                                *)

\* onClick of a node circle with the first catalog node in place of the clicked one
onNodeClick_First(node) == selectedNode' = <<nodes[1]>>

\* onClick of a node circle losing the selection when a connection id of the
\* clicked node is the id of no node
onNodeClick_FaultOnMissing(node) ==
    selectedNode' = IF \E i \in 1..Len(node.connections) : find(nodes, node.connections[i]) = <<>>
                    THEN <<>> ELSE <<node>>

\* onClick={() => setSelectedNode(node)}
onNodeClick(node) == selectedNode' = <<node>>

\* the search input's onChange also dropping the selection
onSearchChange_ClearsSelection(value) ==
    /\ searchTerm' = value
    /\ effectPending' = TRUE
    /\ selectedNode' = <<>>
    /\ UNCHANGED filteredNodes

\* onChange={(e) => setSearchTerm(e.target.value)}; the effect depends on [searchTerm].
\* Only setSearchTerm is called: the other state of the component is kept.
onSearchChange(value) ==
    /\ searchTerm' = value
    /\ effectPending' = TRUE
    /\ UNCHANGED <<selectedNode, filteredNodes>>

\* the filter effect filtering the nodes array in place
filterEffect_InPlace ==
    /\ filteredNodes' = FilterNodes(nodes, searchTerm)
    /\ nodes' = FilterNodes(nodes, searchTerm)
    /\ effectPending' = FALSE
    /\ UNCHANGED <<selectedNode, searchTerm>>

\* the body of useEffect(() => {...}, [searchTerm]). Array.prototype.filter
\* builds a new array and leaves nodes as it is; only setFilteredNodes is called.
filterEffect ==
    /\ filteredNodes' = FilterNodes(nodes, searchTerm)
    /\ nodes' = nodes
    /\ effectPending' = FALSE
    /\ UNCHANGED <<selectedNode, searchTerm>>

-----------------------------------------------------------------------------
(* App: switching tabs unmounts one view and mounts another.               *)

\* renderContent after setActiveTab(tab): the view of tab is mounted afresh.
\* No cleanup clears the timers of the ChatInterface that is unmounted: their
\* callbacks still run, setting state on a component that no longer exists.
renderContent(tab) ==
    /\ activeTab' = tab
    /\ timers' = <<>>
    /\ orphans' = orphans + Len(timers)
    /\ IF tab = "chat"
       THEN /\ messages' = <<Greeting(now)>>
            /\ inputValue' = <<>>
            /\ isTyping' = FALSE
       ELSE /\ messages' = <<>>
            /\ inputValue' = <<>>
            /\ isTyping' = FALSE
    /\ selectedNode' = <<>>
    /\ searchTerm' = <<>>
    /\ filteredNodes' = <<>>
    /\ effectPending' = (tab = "knowledge")

-----------------------------------------------------------------------------
(* The state machine.                                                      *)

Op(name, arg) == [op |-> name, arg |-> arg]

\* the last step was neither a node click nor a submission
NoOp == Op("none", <<>>)

Init ==
    /\ activeTab = "chat"
    /\ messages = <<Greeting(StartTime)>>
    /\ inputValue = <<>>
    /\ isTyping = FALSE
    /\ timers = <<>>
    /\ orphans = 0
    /\ now = StartTime
    /\ selectedNode = <<>>
    /\ searchTerm = <<>>
    /\ filteredNodes = <<>>
    /\ effectPending = FALSE
    /\ nodes = SampleNodes
    /\ edges = SampleEdges
    /\ lastOp = NoOp

\* a click on a tab button other than the active one
SwitchTab(tab) ==
    /\ tab # activeTab
    /\ renderContent(tab)
    /\ lastOp' = NoOp
    /\ UNCHANGED <<now, nodes, edges>>

\* typing in the chat input: onChange={(e) => setInputValue(e.target.value)}
TypeInput(value) ==
    /\ activeTab = "chat"
    /\ value # inputValue
    /\ inputValue' = value
    /\ lastOp' = NoOp
    /\ UNCHANGED <<activeTab, messages, isTyping, timers, orphans, now, graphVars, catalogVars>>

\* a click on the Send button, possible while it is not disabled
ClickSend ==
    /\ activeTab = "chat"
    /\ ~(~Truthy(trim(inputValue)) \/ isTyping)
    /\ WithinBounds
    /\ handleSendMessage
    /\ lastOp' = Op("send", inputValue)
    /\ UNCHANGED <<activeTab, orphans, now, graphVars, catalogVars>>

\* a key pressed in the chat input
KeyPress(key, shiftKey) ==
    /\ activeTab = "chat"
    /\ ~Truthy(trim(inputValue)) \/ WithinBounds
    /\ handleKeyPress(key, shiftKey)
    /\ lastOp' = IF key = "Enter" /\ ~shiftKey THEN Op("enter", inputValue) ELSE NoOp
    /\ UNCHANGED <<activeTab, orphans, now, graphVars, catalogVars>>

\* the oldest timer expires and its callback runs
TimerFire ==
    /\ timers # <<>>
    /\ now >= Head(timers).due
    /\ TimerCallback
    /\ lastOp' = NoOp
    /\ UNCHANGED <<activeTab, orphans, now, graphVars, catalogVars>>

\* a timer of an unmounted ChatInterface expires: its callback changes no state
OrphanFire ==
    /\ orphans > 0
    /\ orphans' = orphans - 1
    /\ lastOp' = NoOp
    /\ UNCHANGED <<activeTab, chatVars, timers, now, graphVars, catalogVars>>

\* the clock advances by one timer delay, or by one millisecond from a multiple
\* of the delay; only a timer of the mounted view makes the passing of time observable
Advance(d) ==
    /\ timers # <<>>
    /\ now + d - StartTime <= MaxPeriods * TimerDelay + 1
    /\ d = 1 => (now - StartTime) % TimerDelay = 0
    /\ now' = now + d
    /\ lastOp' = NoOp
    /\ UNCHANGED <<activeTab, chatVars, timers, orphans, graphVars, catalogVars>>

\* typing in the graph search input
TypeSearch(value) ==
    /\ activeTab = "knowledge"
    /\ value # searchTerm
    /\ onSearchChange(value)
    /\ lastOp' = NoOp
    /\ UNCHANGED <<activeTab, chatVars, timers, orphans, now, catalogVars>>

\* the scheduled filter effect runs
FilterEffect ==
    /\ activeTab = "knowledge"
    /\ effectPending
    /\ filterEffect
    /\ lastOp' = NoOp
    /\ UNCHANGED <<activeTab, chatVars, timers, orphans, now, edges>>

\* a click on the i-th node circle of the rendered list
ClickNode(i) ==
    /\ activeTab = "knowledge"
    /\ i \in 1..Len(DisplayedNodes)
    /\ onNodeClick(DisplayedNodes[i])
    /\ lastOp' = Op("select", <<DisplayedNodes[i].id>>)
    /\ UNCHANGED <<activeTab, chatVars, timers, orphans, now, searchTerm, filteredNodes,
                   effectPending, catalogVars>>

\* a click on any node circle of the rendered list
ClickAnyNode == \E i \in 1..Len(DisplayedNodes) : ClickNode(i)

Next ==
    \/ \E tab \in Tabs : SwitchTab(tab)
    \/ \E value \in Queries : TypeInput(value)
    \/ ClickSend
    \/ \E e \in KeyEvents : KeyPress(e[1], e[2])
    \/ TimerFire
    \/ OrphanFire
    \/ \E d \in {1, TimerDelay} : Advance(d)
    \/ \E value \in SearchTerms : TypeSearch(value)
    \/ FilterEffect
    \/ ClickAnyNode

Spec == Init /\ [][Next]_vars

-----------------------------------------------------------------------------
(* classify as a function of the text: one query per run, drawn from Texts. *)

InitClassify ==
    /\ activeTab = "chat"
    /\ messages = <<Greeting(StartTime)>>
    /\ inputValue \in Texts
    /\ isTyping = FALSE
    /\ timers = <<>>
    /\ orphans = 0
    /\ now = StartTime
    /\ selectedNode = <<>>
    /\ searchTerm = <<>>
    /\ filteredNodes = <<>>
    /\ effectPending = FALSE
    /\ nodes = SampleNodes
    /\ edges = SampleEdges
    /\ lastOp = NoOp

NextClassify ==
    \/ ClickSend
    \/ \E e \in KeyEvents : KeyPress(e[1], e[2])
    \/ TimerFire
    \/ \E d \in {1, TimerDelay} : Advance(d)

SpecClassify == InitClassify /\ [][NextClassify]_vars

-----------------------------------------------------------------------------
(* The graph view as a function of its catalog literals.                   *)

\* the edges literal with one more edge, whose target is the id of no node
DanglingEdges ==
    Append(SampleEdges,
           [from |-> "insat3d", to |-> "sounder_data", label |-> "generates", type |-> "provides"])

\* the catalogs the view is rendered over
Catalogs == {[nodes |-> SampleNodes, edges |-> SampleEdges],
             [nodes |-> SampleNodes, edges |-> DanglingEdges]}

InitCatalog ==
    /\ activeTab = "chat"
    /\ messages = <<Greeting(StartTime)>>
    /\ inputValue = <<>>
    /\ isTyping = FALSE
    /\ timers = <<>>
    /\ orphans = 0
    /\ now = StartTime
    /\ selectedNode = <<>>
    /\ searchTerm = <<>>
    /\ filteredNodes = <<>>
    /\ effectPending = FALSE
    /\ \E c \in Catalogs : nodes = c.nodes /\ edges = c.edges
    /\ lastOp = NoOp

NextCatalog ==
    \/ \E tab \in Tabs : SwitchTab(tab)
    \/ \E value \in SearchTerms : TypeSearch(value)
    \/ FilterEffect
    \/ ClickAnyNode

SpecCatalog == InitCatalog /\ [][NextCatalog]_vars


-----------------------------------------------------------------------------
(* One chat session to its end: the clock keeps running while a response   *)
(* is awaited, and the event loop runs every timer that is due.            *)

\* the clock advances while a timer of the mounted chat is not yet due
AdvanceToDue(d) ==
    /\ timers # <<>>
    /\ now < timers[Len(timers)].due
    /\ d = 1 => (now - StartTime) % TimerDelay = 0
    /\ now' = now + d
    /\ lastOp' = NoOp
    /\ UNCHANGED <<activeTab, chatVars, timers, orphans, graphVars, catalogVars>>

\* the texts typed into the chat input in this session
LiveQueries == {<<>>, <<" "," ">>, <<"d","a","t","a">>, <<"a","r","e","a">>}

\* the session ends when another tab is opened; the chat is not opened again
NextLive ==
    \/ \E tab \in Tabs \ {"chat"} : SwitchTab(tab)
    \/ \E value \in LiveQueries : TypeInput(value)
    \/ ClickSend
    \/ \E e \in KeyEvents : KeyPress(e[1], e[2])
    \/ TimerFire
    \/ OrphanFire
    \/ \E d \in {1, TimerDelay} : AdvanceToDue(d)

\* time passes and a due setTimeout callback is run by the event loop
Fairness ==
    /\ WF_vars(\E d \in {1, TimerDelay} : AdvanceToDue(d))
    /\ WF_vars(TimerFire)

SpecLive == Init /\ [][NextLive]_vars /\ Fairness
-----------------------------------------------------------------------------
(* Vocabulary of the properties.                                           *)

HasField(r, f) == f \in DOMAIN r

\* the text contains a keyword of the product rule / download rule / geospatial rule
MentionsProduct(text) ==
    includes(toLowerCase(text), KwSatellite) \/ includes(toLowerCase(text), KwData)
MentionsDownload(text) ==
    includes(toLowerCase(text), KwDownload) \/ includes(toLowerCase(text), KwAccess)
MentionsPlace(text) ==
    \/ includes(toLowerCase(text), KwLocation)
    \/ includes(toLowerCase(text), KwArea)
    \/ includes(toLowerCase(text), KwRegion)

\* positions of the bot responses that directly follow the user message they answer
AnsweredAt == {i \in 2..Len(messages) :
                  messages[i].sender = "bot" /\ messages[i - 1].sender = "user"}

IsDownloadResult(m) ==
    /\ HasField(m, "type") /\ m.type = "document"
    /\ m.content = DownloadContent
    /\ HasField(m, "metadata")
    /\ HasField(m.metadata, "procedure") /\ m.metadata.procedure = "data_download"

IsGeneralResult(m, text) ==
    /\ ~HasField(m, "type")
    /\ m.content = GeneralContent(text)
    /\ HasField(m, "metadata")
    /\ HasField(m.metadata, "generalQuery") /\ m.metadata.generalQuery = TRUE

\* the entities a response reports: metadata.entities, none when the field is absent
EntitiesOf(m) ==
    IF HasField(m, "metadata") /\ HasField(m.metadata, "entities")
    THEN m.metadata.entities ELSE <<>>

\* the catalog labels occurring in the text ignoring case, in catalog order, each once
LabelsIn(text, ns) ==
    LET Occurs(i) == includes(toLowerCase(text), toLowerCase(ns[i].label))
        First(i) == \A j \in 1..(i - 1) : ns[j].label # ns[i].label
        idx == SelectSeq([i \in 1..Len(ns) |-> i], LAMBDA i : Occurs(i) /\ First(i))
    IN  [k \in 1..Len(idx) |-> ns[idx[k]].label]

\* a response of one of the four shapes simulateAIResponse builds
IsStructuredResult(m) ==
    /\ m.sender = "bot"
    /\ HasField(m, "id") /\ HasField(m, "content") /\ HasField(m, "timestamp")
    /\ HasField(m, "metadata")
    /\ \/ HasField(m.metadata, "intent")
       \/ HasField(m.metadata, "procedure")
       \/ HasField(m.metadata, "spatialQuery")
       \/ HasField(m.metadata, "generalQuery")

\* the last step was a submission (Send button or Enter key) of lastOp.arg
Submitted == lastOp.op \in {"send", "enter"}

\* the ids of the nodes joined to id by an edge, in either direction
Neighbours(ns, es, id) ==
    {ns[j].id : j \in {k \in 1..Len(ns) :
        \E e \in 1..Len(es) : \/ es[e].from = id /\ es[e].to = ns[k].id
                              \/ es[e].to = id /\ es[e].from = ns[k].id}}

Range(s) == {s[i] : i \in 1..Len(s)}

\* an edge one of whose endpoints is the id of no node
IsDangling(ns, e) == find(ns, e.from) = <<>> \/ find(ns, e.to) = <<>>

HasDanglingEdge == \E i \in 1..Len(edges) : IsDangling(nodes, edges[i])

-----------------------------------------------------------------------------
(* Properties.                                                             *)

\* C1: a query that mentions download or access together with satellite or
\* data is answered with the data_download procedure response.
C1_DownloadBeforeProduct ==
    \A i \in AnsweredAt :
        (MentionsDownload(messages[i - 1].content) /\ MentionsProduct(messages[i - 1].content))
            => IsDownloadResult(messages[i])

\* C2: the connections of every catalog node are exactly the ids of the nodes
\* joined to it by an edge.
C2_ConnectionsDerived ==
    \A i \in 1..Len(nodes) :
        Range(nodes[i].connections) = Neighbours(nodes, edges, nodes[i].id)

C4_FallbackIntentConfidence ==
    \A i \in AnsweredAt :
        LET text == messages[i - 1].content IN
        (~MentionsProduct(text) /\ ~MentionsDownload(text) /\ ~MentionsPlace(text))
            => /\ HasField(messages[i].metadata, "intent")
               /\ messages[i].metadata.intent = "general_inquiry"
               /\ HasField(messages[i].metadata, "confidence")

\* C4 (amended): a query with no trigger keyword is answered with the generic
\* template and the generalQuery flag, and carries no intent and no confidence.
C4_FallbackGeneric ==
    \A i \in AnsweredAt :
        LET text == messages[i - 1].content IN
        (~MentionsProduct(text) /\ ~MentionsDownload(text) /\ ~MentionsPlace(text))
            => /\ IsGeneralResult(messages[i], text)
               /\ ~HasField(messages[i].metadata, "intent")
               /\ ~HasField(messages[i].metadata, "confidence")

\* C4 witness: a query without any trigger keyword has been answered.
C4_Witness ==
    \E i \in AnsweredAt :
        /\ messages[i - 1].content = ExampleWeather
        /\ IsGeneralResult(messages[i], ExampleWeather)

\* C5: the entities reported with a response are exactly the catalog labels
\* that occur in the query text, in catalog order and without duplicates.
C5_EntitiesAreLabelsInText ==
    \A i \in AnsweredAt :
        EntitiesOf(messages[i]) = LabelsIn(messages[i - 1].content, nodes)

\* C6 (as stated): every submission, blank or not, gets a classification: right
\* after it a response for the submitted text is on its way.
C6_EverySubmissionClassified ==
    Submitted => (timers # <<>> /\ timers[Len(timers)].query = lastOp.arg)

\* C6 (amended): a blank submission changes nothing; a non-blank submission
\* appends the user message and schedules one response for its text; and every
\* response delivered is a structured result.
C6_NonBlankClassified ==
    [][ /\ (lastOp'.op \in {"send", "enter"} /\ ~Truthy(trim(lastOp'.arg)))
            => UNCHANGED <<messages, inputValue, isTyping, timers>>
        /\ (lastOp'.op \in {"send", "enter"} /\ Truthy(trim(lastOp'.arg)))
            => /\ lastOp'.arg = inputValue
               /\ messages' = Append(messages, UserMessage(inputValue, now))
               /\ timers' = Append(timers, TimerOf(inputValue, now))
        /\ (activeTab' = activeTab /\ timers # <<>> /\ timers' = Tail(timers))
            => /\ Len(messages') = Len(messages) + 1
               /\ IsStructuredResult(messages'[Len(messages')])
      ]_vars

\* C6 witness: a whitespace-only text was submitted with the Enter key and
\* dropped: no message was appended and no response is on its way.
C6_Witness ==
    /\ lastOp.op = "enter"
    /\ lastOp.arg # <<>>
    /\ ~Truthy(trim(lastOp.arg))
    /\ inputValue = lastOp.arg
    /\ Len(messages) = 1
    /\ timers = <<>>

\* C7 (as stated): the result of a query appears in the step that submits it.
C7_ResultInSameStep ==
    (Submitted /\ Truthy(trim(lastOp.arg))) => messages[Len(messages)].sender = "bot"

\* C7 (amended): a submission step appends only the user message and leaves its
\* response to a timer; a response is appended only by a later step, the one in
\* which the oldest timer expires, no earlier than TimerDelay after submission.
C7_ResultInLaterStep ==
    [][ /\ (lastOp'.op \in {"send", "enter"} /\ Truthy(trim(lastOp'.arg)))
            => /\ Len(messages') = Len(messages) + 1
               /\ messages'[Len(messages')].sender = "user"
               /\ isTyping'
               /\ Len(timers') = Len(timers) + 1
               /\ timers'[Len(timers')].due = now + TimerDelay
        /\ (activeTab' = activeTab /\ Len(messages') > Len(messages)
                /\ messages'[Len(messages')].sender = "bot")
            => /\ lastOp' = NoOp
               /\ timers # <<>>
               /\ timers' = Tail(timers)
               /\ now >= Head(timers).due
               /\ messages' = Append(messages, simulateAIResponse(Head(timers).query, now))
      ]_vars

\* C7 witness: between a submission and its result the input was edited and a
\* second query was submitted.
C7_Witness ==
    /\ Len(timers) = 2
    /\ Len(messages) = 3
    /\ messages[2].sender = "user" /\ messages[3].sender = "user"
    /\ Truthy(inputValue)

\* C8: in every state with a selected node some operation of the mounted graph
\* view clears the selection.
C8_ClearAvailable ==
    (activeTab = "knowledge" /\ selectedNode # <<>>)
        => ENABLED (Next /\ activeTab' = "knowledge" /\ selectedNode' = <<>>)

\* C9: the graph view is mounted with no selection, a click on node b selects
\* exactly b, and the selection is always absent or a catalog node.
C9_SelectTransitions ==
    /\ [](/\ Len(selectedNode) <= 1
          /\ selectedNode # <<>> => \E i \in 1..Len(nodes) : nodes[i] = selectedNode[1]
          /\ lastOp.op = "select"
                => /\ find(nodes, lastOp.arg[1]) # <<>>
                   /\ selectedNode = find(nodes, lastOp.arg[1]))
    /\ [][(activeTab # "knowledge" /\ activeTab' = "knowledge") => selectedNode' = <<>>]_vars

\* C9 witness: a click on a node of a filtered list has selected that node.
C9_Witness ==
    /\ lastOp = Op("select", <<"indian_ocean">>)
    /\ selectedNode # <<>> /\ selectedNode[1].id = "indian_ocean"
    /\ searchTerm = <<"o","c","e","a","n">>
    /\ ~effectPending

\* C10: a search term made of spaces only shows the full catalog, in catalog
\* order, as the empty term does.
C10_BlankTermShowsAll ==
    (activeTab = "knowledge" /\ ~effectPending /\ Truthy(searchTerm)
        /\ ~Truthy(trim(searchTerm)))
        => DisplayedNodes = nodes

-----------------------------------------------------------------------------
(* Properties of the search.                                               *)

\* t occurs in s as a contiguous substring when letter case is ignored
ContainsIgnoringCase(s, t) ==
    \E i \in 0..(Len(s) - Len(t)) : \A j \in 1..Len(t) : LowerChar(s[i + j]) = LowerChar(t[j])

\* the positions of the catalog nodes whose label or type name contains the term
MatchingIndices(ns, term) ==
    {i \in 1..Len(ns) : \/ ContainsIgnoringCase(ns[i].label, term)
                        \/ ContainsIgnoringCase(ns[i].type, term)}

\* res lists exactly the nodes of ns at the positions I, in the order of ns
IsSubsequenceAt(res, ns, I) ==
    /\ Len(res) = Cardinality(I)
    /\ \A k \in 1..Len(res) :
          \E i \in I : res[k] = ns[i] /\ Cardinality({j \in I : j < i}) = k - 1

LabelsOf(ns) == [i \in 1..Len(ns) |-> ns[i].label]

\* two terms made of the same letters when case is ignored
SameIgnoringCase(s, t) == toLowerCase(s) = toLowerCase(t)

\* the graph view is mounted and its filter effect has run for the current term
SearchSettled == activeTab = "knowledge" /\ ~effectPending

\* C11: with the empty search term the view lists every catalog node, same
\* count and same order as the catalog, before any term is typed and after a
\* term is erased; and the filter computed for the empty term is the catalog.
C11_EmptyTermShowsAll ==
    (activeTab = "knowledge" /\ searchTerm = <<>>)
        => /\ Len(DisplayedNodes) = Len(nodes)
           /\ DisplayedNodes = nodes
           /\ ~effectPending => filteredNodes = nodes

\* C11 witness: a term was typed, filtered on and then erased; the filter
\* result of the erased term is still stored while the empty term is shown.
C11_Witness ==
    /\ activeTab = "knowledge"
    /\ searchTerm = <<>>
    /\ effectPending
    /\ LabelsOf(filteredNodes) = <<<<"O","c","e","a","n","s","a","t","-","2">>, <<"I","n","d","i","a","n"," ","O","c","e","a","n">>>>
    /\ DisplayedNodes = nodes

\* C12: for a non-empty term the computed search result is exactly the catalog
\* nodes whose label or type name contains the term ignoring case, in catalog
\* order, none omitted and none added; "ocean" gives Oceansat-2, Indian Ocean.
C12_SearchIsMatchingSubsequence ==
    (SearchSettled /\ Truthy(searchTerm))
        => /\ IsSubsequenceAt(DisplayedNodes, nodes, MatchingIndices(nodes, searchTerm))
           /\ searchTerm = <<"o","c","e","a","n">>
                => LabelsOf(DisplayedNodes) = <<<<"O","c","e","a","n","s","a","t","-","2">>, <<"I","n","d","i","a","n"," ","O","c","e","a","n">>>>

\* C12 witness: the term "mission", which occurs in no label but is a type
\* name, has been searched and gives the three mission nodes in catalog order.
C12_Witness ==
    /\ SearchSettled
    /\ searchTerm = <<"m","i","s","s","i","o","n">>
    /\ LabelsOf(DisplayedNodes) = <<<<"I","N","S","A","T","-","3","D">>, <<"S","C","A","T","S","A","T","-","1">>, <<"O","c","e","a","n","s","a","t","-","2">>>>

\* C13: the computed search result is the same for every spelling of the term
\* that differs only in letter case, and equals a repeated computation of the
\* filter for the same term.
C13_CaseInsensitiveRepeatable ==
    SearchSettled
        => \A t \in SearchTerms :
              SameIgnoringCase(t, searchTerm) => filteredNodes = FilterNodes(nodes, t)

\* C13 witness: "SAT" has been searched and gives the non-empty result of "sat".
C13_Witness ==
    /\ SearchSettled
    /\ searchTerm = <<"S","A","T">>
    /\ filteredNodes # <<>>
    /\ filteredNodes = FilterNodes(nodes, <<"s","a","t">>)

-----------------------------------------------------------------------------
(* Properties of the classifier.                                           *)

\* positions, after the greeting, of the messages of one sender, oldest first
PositionsOf(sender) ==
    SelectSeq([i \in 1..Len(messages) |-> i],
              LAMBDA i : i > 1 /\ messages[i].sender = sender)

\* the k-th response answers the k-th user message: timers expire in the order set
Answered == 1..Len(PositionsOf("bot"))
QueryOf(k) == messages[PositionsOf("user")[k]].content
ResponseOf(k) == messages[PositionsOf("bot")[k]]

\* what a response says about its query: template, type and metadata, without
\* the id and timestamp of the message that carries it
ClassificationOf(m) ==
    [content |-> m.content,
     type |-> IF HasField(m, "type") THEN m.type ELSE "none",
     metadata |-> m.metadata]

\* C14: the classification of a text is the same whenever it is computed:
\* every delivered response classifies its query as a computation at another
\* clock reading does, and two responses to the same text classify it alike.
C14_ClassifyPure ==
    \A k \in Answered :
        /\ ClassificationOf(ResponseOf(k))
              = ClassificationOf(simulateAIResponse(QueryOf(k), StartTime))
        /\ \A j \in Answered :
              QueryOf(j) = QueryOf(k)
                  => ClassificationOf(ResponseOf(j)) = ClassificationOf(ResponseOf(k))

\* C14 witness: the same text was asked twice and answered at two different
\* times with the same classification.
C14_Witness ==
    \E j \in Answered, k \in Answered :
        /\ j < k
        /\ QueryOf(j) = ExampleDownload /\ QueryOf(k) = ExampleDownload
        /\ ResponseOf(j).timestamp # ResponseOf(k).timestamp
        /\ ClassificationOf(ResponseOf(j)) = ClassificationOf(ResponseOf(k))

\* C15: a text containing satellite or data in any letter case, and neither
\* download nor access, is answered as product_inquiry with confidence 0.92.
C15_ProductRule ==
    \A i \in AnsweredAt :
        LET text == messages[i - 1].content IN
        (MentionsProduct(text) /\ ~MentionsDownload(text))
            => /\ HasField(messages[i].metadata, "intent")
               /\ messages[i].metadata.intent = "product_inquiry"
               /\ HasField(messages[i].metadata, "confidence")
               /\ messages[i].metadata.confidence = ProductConfidence
               /\ messages[i].content = ProductContent

\* C15 witness: the single keyword DATA, in upper case, was answered as
\* product_inquiry.
C15_Witness ==
    \E i \in AnsweredAt :
        /\ messages[i - 1].content = <<"D","A","T","A">>
        /\ HasField(messages[i].metadata, "intent")
        /\ messages[i].metadata.intent = "product_inquiry"

\* the text is answered by the geospatial rule: a place keyword and no keyword
\* of the product or the download rule
OnlyMentionsPlace(text) ==
    MentionsPlace(text) /\ ~MentionsProduct(text) /\ ~MentionsDownload(text)

\* C16 (as stated): a text answered by the geospatial rule is classified with
\* the intent label geospatial_query, and its metadata carries spatialQuery.
C16_GeospatialIntentLabel ==
    \A i \in AnsweredAt :
        OnlyMentionsPlace(messages[i - 1].content)
            => /\ HasField(messages[i].metadata, "intent")
               /\ messages[i].metadata.intent = "geospatial_query"
               /\ HasField(messages[i].metadata, "spatialQuery")
               /\ messages[i].metadata.spatialQuery = TRUE

\* C16 (amended): a text answered by the geospatial rule gets the spatial
\* template with message type geospatial and metadata whose spatialQuery flag
\* is true; the response carries no intent label and no confidence.
C16_GeospatialTemplate ==
    \A i \in AnsweredAt :
        OnlyMentionsPlace(messages[i - 1].content)
            => /\ messages[i].content = GeospatialContent
               /\ HasField(messages[i], "type") /\ messages[i].type = "geospatial"
               /\ HasField(messages[i].metadata, "spatialQuery")
               /\ messages[i].metadata.spatialQuery = TRUE
               /\ ~HasField(messages[i].metadata, "intent")
               /\ ~HasField(messages[i].metadata, "confidence")

\* C16 witness: the single keyword region was answered with the spatial template.
C16_Witness ==
    \E i \in AnsweredAt :
        /\ messages[i - 1].content = <<"r","e","g","i","o","n">>
        /\ messages[i].content = GeospatialContent
        /\ messages[i].metadata.spatialQuery = TRUE

\* confidence values are kept in hundredths: 0 to 100 is the range 0 to 1
InUnitRange(confidence) == confidence \in 0..100

\* C17 (as stated): every response carries an intent label and a confidence
\* between 0 and 1.
C17_AlwaysIntentAndConfidence ==
    \A i \in AnsweredAt :
        /\ HasField(messages[i].metadata, "intent")
        /\ HasField(messages[i].metadata, "confidence")
        /\ InUnitRange(messages[i].metadata.confidence)

\* C17 (amended): a response carries an intent label exactly when it carries a
\* confidence, which then lies between 0 and 1; that is the case exactly for
\* the texts of the product rule, and every other response carries neither.
C17_ConfidenceOnlyWithProduct ==
    \A i \in AnsweredAt :
        LET meta == messages[i].metadata IN
        /\ HasField(meta, "intent") <=> HasField(meta, "confidence")
        /\ HasField(meta, "confidence") => InUnitRange(meta.confidence)
        /\ HasField(meta, "intent") <=> MentionsProduct(messages[i - 1].content)

\* C17 witness: a download query without product keyword was answered with the
\* procedure response, which has neither intent nor confidence.
C17_Witness ==
    \E i \in AnsweredAt :
        /\ messages[i - 1].content = <<"d","o","w","n","l","o","a","d">>
        /\ IsDownloadResult(messages[i])
        /\ ~HasField(messages[i].metadata, "intent")
        /\ ~HasField(messages[i].metadata, "confidence")

-----------------------------------------------------------------------------
(* Properties of the node detail and of the lookups.                       *)

\* the positions of the edges that start or end at id
IncidentIndices(es, id) == {i \in 1..Len(es) : es[i].from = id \/ es[i].to = id}

\* C18: for every catalog node the incident edges computed for it, and shown
\* in the Relationships panel when it is selected, are exactly the edges that
\* start or end at it, each once and in catalog order; in the sample catalog
\* insat3d has exactly one incident edge, insat3d -> imager_data.
C18_IncidentEdges ==
    /\ \A n \in 1..Len(nodes) :
          IsSubsequenceAt(Relationships(edges, nodes[n].id), edges,
                          IncidentIndices(edges, nodes[n].id))
    /\ selectedNode # <<>>
          => IsSubsequenceAt(RelationshipsPanel, edges,
                             IncidentIndices(edges, selectedNode[1].id))
    /\ edges = SampleEdges
          => Relationships(edges, "insat3d") = <<SampleEdges[1]>>

\* C18 witness: imager_data is selected and its panel shows its incoming edge
\* and then its outgoing edge.
C18_Witness ==
    /\ activeTab = "knowledge"
    /\ selectedNode # <<>> /\ selectedNode[1].id = "imager_data"
    /\ Len(RelationshipsPanel) = 2
    /\ RelationshipsPanel[1].from = "insat3d" /\ RelationshipsPanel[1].to = "imager_data"
    /\ RelationshipsPanel[2].from = "imager_data" /\ RelationshipsPanel[2].to = "user_manual"

\* C19: in every state both endpoints of every catalog edge are found among
\* the catalog nodes, so renderEdges draws a line for every edge.
C19_EdgeEndpointsResolve ==
    \A i \in 1..Len(edges) :
        /\ find(nodes, edges[i].from) # <<>>
        /\ find(nodes, edges[i].from)[1].id = edges[i].from
        /\ find(nodes, edges[i].to) # <<>>
        /\ find(nodes, edges[i].to)[1].id = edges[i].to
        /\ renderEdges(nodes, edges)[i] # <<>>

\* C19 witness: the graph view is mounted over the catalog and every one of
\* its edges is drawn.
C19_Witness ==
    /\ activeTab = "knowledge"
    /\ ~effectPending
    /\ edges # <<>>
    /\ \A i \in 1..Len(edges) : renderEdges(nodes, edges)[i] # <<>>

\* the node has a connection id that is the id of no catalog node
HasUnknownConnection(node) ==
    \E i \in 1..Len(node.connections) : find(nodes, node.connections[i]) = <<>>

\* C20: a lookup of an id that is the id of no node gives the absent value:
\* the panel entry falls back to the raw id and an edge with such an endpoint
\* is not drawn; the click whose rendering makes such lookups changes only the
\* selection, and typing a term, clicking a node and switching tab stay possible.
C20_UnknownIdIsValue ==
    /\ [](/\ \A i \in 1..Len(edges) :
                IsDangling(nodes, edges[i]) <=> renderEdges(nodes, edges)[i] = <<>>
          /\ (activeTab = "knowledge" /\ selectedNode # <<>>)
                => LET node == selectedNode[1]
                       panel == ConnectionsPanel(nodes, node)
                   IN  /\ Len(panel) = Len(node.connections)
                       /\ \A i \in 1..Len(panel) :
                             find(nodes, node.connections[i]) = <<>>
                                 => /\ ~panel[i].resolved
                                    /\ panel[i].shown = <<node.connections[i]>>
                       /\ HasUnknownConnection(node)
                             => /\ ENABLED (\E value \in SearchTerms : TypeSearch(value))
                                /\ ENABLED SwitchTab("chat")
                                /\ DisplayedNodes # <<>> => ENABLED ClickAnyNode)
    /\ [][(lastOp'.op = "select" /\ HasUnknownConnection(find(nodes, lastOp'.arg[1])[1]))
             => /\ selectedNode' = find(nodes, lastOp'.arg[1])
                /\ UNCHANGED <<nodes, edges, searchTerm, filteredNodes, effectPending>>]_vars

\* C20 witness: insat3d was clicked; its connection sounder_data is the id of
\* no node and is shown by its raw id.
C20_Witness ==
    /\ lastOp = Op("select", <<"insat3d">>)
    /\ selectedNode # <<>> /\ selectedNode[1].id = "insat3d"
    /\ ~ConnectionsPanel(nodes, selectedNode[1])[2].resolved
    /\ ConnectionsPanel(nodes, selectedNode[1])[2].shown = <<"sounder_data">>

-----------------------------------------------------------------------------
(* Frame properties of the graph view.                                     *)

\* C21: the catalog is never changed: whatever step is taken (a search-term
\* change, the filter effect, a node click, a chat submission, a timer, a tab
\* switch), the nodes, their order and fields, and the edges stay as loaded.
C21_CatalogReadOnly ==
    /\ [](nodes = SampleNodes /\ edges = SampleEdges)
    /\ [][nodes' = nodes /\ edges' = edges]_vars

\* C21 witness: after a chat submission and a tab switch, a term has been
\* searched and a node selected, and the catalog is still the loaded one.
C21_Witness ==
    /\ activeTab = "knowledge"
    /\ orphans > 0
    /\ Truthy(searchTerm) /\ ~effectPending
    /\ Len(filteredNodes) < Len(nodes)
    /\ selectedNode # <<>>
    /\ nodes = SampleNodes /\ edges = SampleEdges

\* C22: while the graph view stays mounted, a step that changes the search
\* term or recomputes the filtered list leaves the selection as it is, and the
\* selection changes only in a step that clicks a node.
C22_SelectionFrame ==
    [][activeTab' = activeTab
          => /\ (searchTerm' # searchTerm \/ filteredNodes' # filteredNodes
                    \/ effectPending' # effectPending)
                => selectedNode' = selectedNode
             /\ selectedNode' # selectedNode => lastOp'.op = "select"]_vars

\* C22 witness: insat3d is selected while the settled search for "ocean" shows
\* a list that does not contain it.
C22_Witness ==
    /\ SearchSettled
    /\ searchTerm = <<"o","c","e","a","n">>
    /\ filteredNodes # <<>>
    /\ selectedNode # <<>> /\ selectedNode[1].id = "insat3d"
    /\ \A i \in 1..Len(DisplayedNodes) : DisplayedNodes[i].id # "insat3d"
    /\ lastOp = NoOp

-----------------------------------------------------------------------------
(* Properties of the chat session.                                         *)

\* the chat view is mounted before and after the step
ChatStaysMounted == activeTab = "chat" /\ activeTab' = "chat"

\* C23: at most one response is pending at any time, and while isTyping is
\* true no step of the mounted chat appends a user message.
C23_OneResponsePending ==
    /\ [](Len(timers) <= 1)
    /\ [][(ChatStaysMounted /\ isTyping)
             => Len(PositionsOf("user"))' = Len(PositionsOf("user"))]_vars

\* C24: in every state of the mounted chat isTyping is true exactly when a
\* response timer is outstanding.
C24_TypingIffTimerPending ==
    activeTab = "chat" => (isTyping <=> timers # <<>>)

\* C25: while the chat stays mounted, the k-th accepted user message is
\* eventually answered by a k-th response, which stands after it in the list;
\* and the responses after the greeting never outnumber the user messages.
C25_EveryMessageAnswered ==
    /\ [](/\ Len(PositionsOf("bot")) <= Len(PositionsOf("user"))
          /\ \A k \in Answered : PositionsOf("bot")[k] > PositionsOf("user")[k])
    /\ \A k \in 1..MaxUserMsgs :
          (activeTab = "chat" /\ Len(PositionsOf("user")) >= k)
              ~> (activeTab # "chat" \/ Len(PositionsOf("bot")) >= k)

\* C25 witness: two messages were submitted one after the other before any
\* response, and both responses have been delivered.
C25_Witness ==
    /\ activeTab = "chat"
    /\ timers = <<>>
    /\ Len(messages) > 4
    /\ messages[2].sender = "user" /\ messages[3].sender = "user"
    /\ messages[4].sender = "bot" /\ messages[5].sender = "bot"

\* C26: every delivered response is the classification of the text its user
\* message was submitted with, whatever the input field holds since; the
\* pending timers hold the texts of the unanswered user messages in submission
\* order, so that responses are appended in the order of their messages.
C26_ResponseFromSubmittedText ==
    activeTab = "chat"
        => /\ Len(PositionsOf("user")) = Len(PositionsOf("bot")) + Len(timers)
           /\ \A j \in 1..Len(timers) :
                 timers[j].query = QueryOf(Len(PositionsOf("bot")) + j)
           /\ \A k \in Answered :
                 ClassificationOf(ResponseOf(k))
                     = ClassificationOf(simulateAIResponse(QueryOf(k), ResponseOf(k).timestamp))

\* C26 witness: two texts were submitted, the input was edited again, and the
\* first response, to the first text, has arrived while the second is pending.
C26_Witness ==
    /\ activeTab = "chat"
    /\ Len(PositionsOf("user")) = 2
    /\ QueryOf(1) = ExampleWeather /\ QueryOf(2) = ExampleDownload
    /\ Len(PositionsOf("bot")) = 1
    /\ IsGeneralResult(ResponseOf(1), ExampleWeather)
    /\ Len(timers) = 1 /\ timers[1].query = ExampleDownload
    /\ Truthy(inputValue)

\* C27: the messages of the chat list have pairwise distinct ids.
C27_DistinctIds ==
    \A i \in 1..Len(messages), j \in 1..Len(messages) :
        i # j => messages[i].id # messages[j].id

\* C28: whenever the graph view is rendered with a non-empty search term, the
\* displayed list is the catalog nodes matching that term.
C28_DisplayedMatchesTerm ==
    (activeTab = "knowledge" /\ Truthy(searchTerm))
        => DisplayedNodes = FilterNodes(nodes, searchTerm)

\* C29: the chat is mounted with the greeting as its only message, the first
\* message is always that greeting, and while the chat stays mounted a step
\* leaves the list as it is or appends exactly one message at its end.
C29_AppendOnly ==
    /\ [](activeTab = "chat"
            => /\ messages # <<>>
               /\ messages[1].id = GreetingId /\ messages[1].sender = "bot"
               /\ messages[1].content = GreetingContent)
    /\ [][/\ (activeTab # "chat" /\ activeTab' = "chat") => messages' = <<Greeting(now)>>
          /\ ChatStaysMounted
                => \/ messages' = messages
                   \/ /\ Len(messages') = Len(messages) + 1
                      /\ SubSeq(messages', 1, Len(messages)) = messages]_vars

\* C29 witness: in a chat mounted again after a tab switch, a message was
\* submitted and answered behind the greeting.
C29_Witness ==
    /\ activeTab = "chat"
    /\ now > StartTime
    /\ Len(messages) = 3
    /\ messages[1] = Greeting(messages[1].timestamp)
    /\ messages[1].timestamp > StartTime
    /\ messages[2].sender = "user" /\ messages[3].sender = "bot"
    /\ timers = <<>>

=============================================================================
